---- MODULE Spec2Model ----
(***************************************************************************)
(* A model of the Gree air conditioner device session                      *)
(* (src/src/gree/GreeAirConditionerDevice.ts) together with the parts of   *)
(* the accessory (GreeAirConditionerAccessory.ts) its refresh callback     *)
(* runs.  One session is modelled from the state its constructor leaves;   *)
(* every handler of the class is one action.  The platform                 *)
(* (GreeAirConditionerPlatform.ts) is modelled beside it: its scan timer,  *)
(* its discovery listener and its registry of accessories.                 *)
(*                                                                         *)
(* The refresh callback is modelled as the body of                         *)
(* GreeAirConditionerAccessory.refresh run with the accessory as its       *)
(* receiver, which is what the accessory's constructor means to wire       *)
(* (it passes the method as `this.refresh`); the platform's registerDevice *)
(* callback is read the same way.                                          *)
(***************************************************************************)
EXTENDS Integers, Sequences, FiniteSets, TLC

VARIABLES
    key,                        \* GreeAirConditionerDevice.key
    unavailable,                \* GreeAirConditionerDevice.unavailable
    unrespondedStatusRequests,  \* GreeAirConditionerDevice.unrespondedStatusRequests
    deviceStatus,               \* GreeAirConditionerDevice.deviceStatus
    lastGetDeviceStatus,        \* GreeAirConditionerDevice.lastGetDeviceStatus
    timers,                     \* setInterval timers emitting 'refresh'
    now,                        \* Date.now()
    sent,                       \* the last datagram handed to socket.send
    ev,                         \* history: the last operation and, for a datagram, what it carried
    out,                        \* history: what the last operation did besides changing fields
    pre,                        \* history: availability and counter before the last handled pack
    datSeen,                    \* history: a dat pack with r = 200 has been handled
    lastObserved,               \* history: when the consumer last called getDeviceStatus
    acked,                      \* history: the res pack just handled, when it answers the last cmd
    handled,                    \* history: the pack the last operation passed to its handler,
                                \*          recorded where a property reads it
    refreshed,                  \* history: the cached status at each call of the refresh callback
                                \*          made by the last operation
    transport,                  \* history: whether socket.send threw in the last operation, and
                                \*          whether the error was logged
    launched,                   \* the platform's didFinishLaunching listener has run
    scanMaxRetries,             \* GreeAirConditionerPlatform.config.scanMaxRetries
    scanTimer,                  \* GreeAirConditionerPlatform.scanTimer
    scanCount,                  \* GreeAirConditionerPlatform.scanCount
    devices,                    \* GreeAirConditionerPlatform.devices
    greeAcDevices,              \* GreeAirConditionerPlatform.greeAcDevices
    scans,                      \* history: the scan messages broadcast
    sessions,                   \* history: the device sessions constructed (each sends its bind
                                \*          request), by hardware address
    announced,                  \* history: the identities handed to registerDevice, by address
    disc,                       \* history: the platform's last operation and its datagram
    dout,                       \* history: what the discovery handler did with it
    temperature                 \* a target temperature on its way through the Fahrenheit
                                \*          conversions of the README

svars == <<key, unavailable, unrespondedStatusRequests, deviceStatus,
           lastGetDeviceStatus, timers, now, sent, ev, out, pre, datSeen,
           lastObserved, acked, handled, refreshed, transport>>

pvars == <<launched, scanMaxRetries, scanTimer, scanCount, devices, greeAcDevices,
           scans, sessions, announced, disc, dout>>

tvars == <<temperature>>

vars == <<svars, pvars, tvars>>

----------------------------------------------------------------------------
(* Bounds of the model *)

MaxTicks == 3
MaxUnresponded == 6
MaxTimers == 2
MaxCols == 2
MaxRetries == 3
MaxSessions == 2
MinFahrenheit == 50
MaxFahrenheit == 95

(* Program constants *)

OK == 200
Window == 5000
LastTolerated == 4
scanMaxRetriesDefault == 3

genericKey == "a3K8Bx%2r8Y7#xDh"
undefined == "undefined"
NoValue == 0 - 1
app == "app"
mac == "m1"
otherMac == "m2"
DeviceKeys == {"k1", "k2"}
EncKeys == {genericKey} \cup DeviceKeys
Rejected == OK + 200
Step == Window \div 2

----------------------------------------------------------------------------
(* The command table: the wire codes of GreeAirConditionerCommands *)

GreeAirConditionerCommands ==
    <<"Pow", "Mod", "SetTem", "TemRec", "TemSen", "TemUn", "WdSpd",
      "SwingLfRig", "SwUpDn", "Blo", "Health", "Lig", "SwhSlp", "Quiet", "Tur">>

----------------------------------------------------------------------------
(* Sequences and the status object *)

SeqsUpTo(S, n) == UNION {[1..k -> S] : k \in 0..n}
OneCol(S) == {<<>>} \cup {<<x>> : x \in S}

EmptyStatus == [c \in {} |-> NoValue]

\* deviceStatus[code], undefined when the property was never written
Get(st, code) == IF code \in DOMAIN st THEN st[code] ELSE NoValue

\* deviceStatus[code] = v
Put(st, code, v) == [c \in (DOMAIN st) \cup {code} |-> IF c = code THEN v ELSE st[c]]

\* array[i] of a JavaScript array (1-based here), undefined past its end
At(arr, i) == IF i \in DOMAIN arr THEN arr[i] ELSE NoValue

\* codes.forEach((col, i) => { deviceStatus[col] = values[i]; })
RECURSIVE forEachAssign(_, _, _, _)
forEachAssign(st, codes, values, i) ==
    IF i > Len(codes) THEN st
    ELSE forEachAssign(Put(st, codes[i], At(values, i)), codes, values, i + 1)

----------------------------------------------------------------------------
(* Crypto *)

\* the key parameter's default: key: string = this.genericKey
keyOrGeneric(k) == IF k = undefined THEN genericKey ELSE k

\* Crypto.encrypt: the ciphertext is modelled as the key it was made with
\* and the plain pack
encrypt(data, k) == [enc |-> keyOrGeneric(k), plain |-> data]

\* variant: a pack that does not decrypt with the device key is tried with
\* the generic key
decryptThrows_genericFallback(data, k) == data.enc \notin {keyOrGeneric(k), genericKey}

\* Crypto.decrypt throws (bad padding or JSON.parse of garbage) unless the
\* ciphertext was made with the key it is decrypted with
decryptThrows(data, k) == data.enc # keyOrGeneric(k)
decrypt(data, k) == data.plain

----------------------------------------------------------------------------
(* Packs *)

NoPack == [t |-> "none", r |-> NoValue, key |-> undefined, cols |-> <<>>,
           dat |-> <<>>, opt |-> <<>>, hasVal |-> FALSE, val |-> <<>>, p |-> <<>>]

BindOkPack(r, k) == [NoPack EXCEPT !.t = "bindok", !.r = r, !.key = k]
DatPack(r, cols, dat) == [NoPack EXCEPT !.t = "dat", !.r = r, !.cols = cols, !.dat = dat]
ResPack(r, opt, hasVal, val, p) ==
    [NoPack EXCEPT !.t = "res", !.r = r, !.opt = opt, !.hasVal = hasVal,
                   !.val = val, !.p = p]

\* a value of V other than v, when there is one
Other(V, v) == IF V = {v} THEN v ELSE CHOOSE w \in V : w # v

\* the response packs with result codes R, device keys K, values V and
\* column lists Cols; a res pack that carries val carries a p that echoes
\* val or differs from it everywhere (the handler reads p only without val)
ResponsePacks(R, K, V, Cols) ==
    {BindOkPack(r, k) : r \in R, k \in K}
    \cup UNION {{DatPack(r, cols, dat) : r \in R, dat \in [DOMAIN cols -> V]}
                : cols \in Cols}
    \cup UNION {{ResPack(r, opt, TRUE, val,
                         IF echo THEN val ELSE [i \in DOMAIN val |-> Other(V, val[i])]) :
                     r \in R, val \in [DOMAIN opt -> V], echo \in BOOLEAN}
                : opt \in Cols}
    \cup UNION {{ResPack(r, opt, FALSE, <<>>, p) : r \in R, p \in [DOMAIN opt -> V]}
                : opt \in Cols}

\* dat packs that carry one value fewer than columns
ShortDatPacks(R, V, Cols) ==
    UNION {{DatPack(r, cols, dat) : r \in R, dat \in [1..(Len(cols) - 1) -> V]}
           : cols \in Cols \ {<<>>}}

\* the datagrams a socket can deliver: a pack message from some cid whose
\* pack was encrypted with some key
PackMessages(cids, keys, packs) ==
    {[cid |-> c, pack |-> encrypt(pk, k)] : c \in cids, k \in keys, pk \in packs}

----------------------------------------------------------------------------
(* Requests *)

BindPack == [t |-> "bind", opt |-> <<>>, p |-> <<>>]
StatusPack == [t |-> "status", opt |-> GreeAirConditionerCommands, p |-> <<>>]
CmdPack(opt, p) == [t |-> "cmd", opt |-> opt, p |-> p]

\* sendRequest: the pack message handed to socket.send
sendRequest(requestPack, k) ==
    [i |-> IF k = undefined THEN 1 ELSE 0,
     cid |-> app,
     tcid |-> mac,
     pack |-> encrypt(requestPack, k)]

Transport(failed, logged) == [failed |-> failed, logged |-> logged]
NoTransport == Transport(FALSE, FALSE)

\* variant: sendRequest without its try and catch
sendOutcome_uncaught(throws) ==
    [raised |-> IF throws THEN "TransportError" ELSE "none", logged |-> FALSE]

\* sendRequest: what its caller sees when socket.send throws or returns;
\* the catch clause logs the error
sendOutcome(throws) == [raised |-> "none", logged |-> throws]

----------------------------------------------------------------------------
(* The accessory's getters, as far as refresh needs them *)

isUnavailable == unavailable

IsSwitch(v) == v \in {0, 1}

\* handleTargetHeaterCoolerStateGet throws unless the mode is auto, cool or heat
handleTargetHeaterCoolerStateGetThrows(unav, st) ==
    unav \/ Get(st, "Mod") \notin {0, 1, 4}

\* handleTemperatureDisplayUnitsGet throws unless TemUn is celsius or fahrenheit
handleTemperatureDisplayUnitsGetThrows(unav, st) ==
    unav \/ ~IsSwitch(Get(st, "TemUn"))

\* the switch getters throw unless the cached value is on or off
switchGetThrows(st, code) == ~IsSwitch(Get(st, code))

\* refresh(): runs every getter in turn; the first one, handleActiveGet,
\* throws when the device is unavailable and calls getDeviceStatus otherwise
refresh(unav, st, lastGet) ==
    [lastGetDeviceStatus |-> IF unav THEN lastGet ELSE now,
     raised |->
        IF \/ unav
           \/ handleTargetHeaterCoolerStateGetThrows(unav, st)
           \/ handleTemperatureDisplayUnitsGetThrows(unav, st)
           \/ \E code \in {"Blo", "Health", "Lig", "SwhSlp", "Quiet", "Tur"} :
                  switchGetThrows(st, code)
        THEN "HapStatusError" ELSE "none"]

----------------------------------------------------------------------------
(* History records *)

Event(op, t, r) == [op |-> op, t |-> t, r |-> r]
Output(notified, raised, sends) == [notified |-> notified, raised |-> raised, sends |-> sends]
NoOutput == Output(FALSE, "none", 0)
NoPre == [unavailable |-> TRUE, unrespondedStatusRequests |-> 0]
Snapshot == [unavailable |-> unavailable,
             unrespondedStatusRequests |-> unrespondedStatusRequests]

\* what a datagram is, read off the datagram and the session's key alone
Classify(packMessage) ==
    IF packMessage.cid # mac THEN Event("otherCid", "-", 0)
    ELSE IF packMessage.pack.enc # (IF key = undefined THEN genericKey ELSE key)
         THEN Event("wrongKey", "-", 0)
         ELSE Event("pack", packMessage.pack.plain.t, packMessage.pack.plain.r)

NoAck == [opt |-> <<>>, val |-> <<>>, is |-> FALSE]

\* the res pack of a datagram, when it is a successful res response that
\* lists the codes of the last cmd sent and carries as many values
Ack(packMessage) ==
    LET pack == packMessage.pack.plain
        req == sent.pack.plain
    IN  IF /\ Classify(packMessage) = Event("pack", "res", OK)
           /\ req.t = "cmd"
           /\ pack.opt = req.opt
           /\ pack.hasVal
           /\ Len(pack.val) = Len(pack.opt)
        THEN [opt |-> pack.opt, val |-> pack.val, is |-> TRUE]
        ELSE NoAck

\* the pack handleResponse passes to handleBindOkResponse, handleDatResponse
\* or handleResResponse, when the datagram gets that far
Dispatched(packMessage) ==
    IF /\ Classify(packMessage).op = "pack"
       /\ packMessage.pack.plain.r = OK
       /\ packMessage.pack.plain.t \in {"bindok", "dat", "res"}
    THEN packMessage.pack.plain
    ELSE NoPack

----------------------------------------------------------------------------
(* Response handlers *)

\* variant: binding marks the device available
handleBindOkResponse_available(pack) ==
    /\ timers < MaxTimers
    /\ key' = pack.key
    /\ timers' = timers + 1
    /\ unavailable' = FALSE
    /\ UNCHANGED <<unrespondedStatusRequests, deviceStatus, lastGetDeviceStatus>>
    /\ out' = NoOutput
    /\ refreshed' = <<>>

\* variant: the key is stored and no timer is started
handleBindOkResponse_noTimer(pack) ==
    /\ timers < MaxTimers
    /\ key' = pack.key
    /\ UNCHANGED <<timers, unavailable, unrespondedStatusRequests, deviceStatus,
                   lastGetDeviceStatus>>
    /\ out' = NoOutput
    /\ refreshed' = <<>>

handleBindOkResponse(pack) ==
    /\ timers < MaxTimers
    /\ key' = pack.key
    /\ timers' = timers + 1
    /\ UNCHANGED <<unavailable, unrespondedStatusRequests, deviceStatus,
                   lastGetDeviceStatus>>
    /\ out' = NoOutput
    /\ refreshed' = <<>>

\* variant: a dat response counts one request as answered
handleDatResponse_decrement(pack) ==
    LET st == forEachAssign(deviceStatus, pack.cols, pack.dat, 1)
        cb == refresh(FALSE, st, lastGetDeviceStatus)
    IN  /\ unavailable' = FALSE
        /\ unrespondedStatusRequests' =
               IF unrespondedStatusRequests > 0 THEN unrespondedStatusRequests - 1 ELSE 0
        /\ deviceStatus' = st
        /\ lastGetDeviceStatus' = cb.lastGetDeviceStatus
        /\ UNCHANGED <<key, timers>>
        /\ out' = Output(TRUE, cb.raised, 0)
        /\ refreshed' = <<st>>

handleDatResponse(pack) ==
    LET st == forEachAssign(deviceStatus, pack.cols, pack.dat, 1)
        cb == refresh(FALSE, st, lastGetDeviceStatus)
    IN  /\ unavailable' = FALSE
        /\ unrespondedStatusRequests' = 0
        /\ deviceStatus' = st
        /\ lastGetDeviceStatus' = cb.lastGetDeviceStatus
        /\ UNCHANGED <<key, timers>>
        /\ out' = Output(TRUE, cb.raised, 0)
        /\ refreshed' = <<st>>

\* variant: pack.p || pack.val
resValues_prefersP(pack) == pack.p

\* variant: val is completed from p element by element
resValues_perElement(pack) ==
    IF pack.hasVal
    THEN [i \in DOMAIN pack.p |-> IF i \in DOMAIN pack.val THEN pack.val[i] ELSE pack.p[i]]
    ELSE pack.p

\* (pack.val || pack.p)
resValues(pack) == IF pack.hasVal THEN pack.val ELSE pack.p

\* variant: a res response counts as an answer too
handleResResponse_resets(pack) ==
    LET st == forEachAssign(deviceStatus, pack.opt, resValues(pack), 1)
        cb == refresh(unavailable, st, lastGetDeviceStatus)
    IN  /\ deviceStatus' = st
        /\ lastGetDeviceStatus' = cb.lastGetDeviceStatus
        /\ unrespondedStatusRequests' = 0
        /\ UNCHANGED <<key, timers, unavailable>>
        /\ out' = Output(TRUE, cb.raised, 0)
        /\ refreshed' = <<st>>

\* variant: the callback is called before the values are written
handleResResponse_notifiesFirst(pack) ==
    LET st == forEachAssign(deviceStatus, pack.opt, resValues(pack), 1)
        cb == refresh(unavailable, deviceStatus, lastGetDeviceStatus)
    IN  /\ deviceStatus' = st
        /\ lastGetDeviceStatus' = cb.lastGetDeviceStatus
        /\ UNCHANGED <<key, timers, unavailable, unrespondedStatusRequests>>
        /\ out' = Output(TRUE, cb.raised, 0)
        /\ refreshed' = <<deviceStatus>>

handleResResponse(pack) ==
    LET st == forEachAssign(deviceStatus, pack.opt, resValues(pack), 1)
        cb == refresh(unavailable, st, lastGetDeviceStatus)
    IN  /\ deviceStatus' = st
        /\ lastGetDeviceStatus' = cb.lastGetDeviceStatus
        /\ UNCHANGED <<key, timers, unavailable, unrespondedStatusRequests>>
        /\ out' = Output(TRUE, cb.raised, 0)
        /\ refreshed' = <<st>>

\* a handler that returns, or throws, before it has written anything
Dropped(raised) ==
    /\ UNCHANGED <<key, timers, unavailable, unrespondedStatusRequests,
                   deviceStatus, lastGetDeviceStatus>>
    /\ out' = Output(FALSE, raised, 0)
    /\ refreshed' = <<>>

\* variant: the result code is not looked at
handleResponse_anyResult(packMessage) ==
    IF decryptThrows(packMessage.pack, key)
    THEN Dropped("DecodeError")
    ELSE LET pack == decrypt(packMessage.pack, key)
         IN  CASE pack.t = "bindok" -> handleBindOkResponse(pack)
               [] pack.t = "dat" -> handleDatResponse(pack)
               [] pack.t = "res" -> handleResResponse(pack)
               [] OTHER -> Dropped("none")

handleResponse(packMessage) ==
    IF decryptThrows(packMessage.pack, key)
    THEN Dropped("DecodeError")
    ELSE LET pack == decrypt(packMessage.pack, key)
         IN  IF pack.r = OK
             THEN CASE pack.t = "bindok" -> handleBindOkResponse(pack)
                    [] pack.t = "dat" -> handleDatResponse(pack)
                    [] pack.t = "res" -> handleResResponse(pack)
                    [] OTHER -> Dropped("none")
             ELSE Dropped("none")

\* variant: the envelope's cid is not looked at
onMessage_anyCid(packMessage) ==
    /\ handleResponse(packMessage)
    /\ ev' = Classify(packMessage)
    /\ pre' = IF ev'.op = "pack" THEN Snapshot ELSE NoPre
    /\ datSeen' = (datSeen \/ (ev'.op = "pack" /\ ev'.t = "dat" /\ ev'.r = OK))
    /\ acked' = Ack(packMessage)
    /\ transport' = NoTransport
    /\ UNCHANGED <<now, sent, lastObserved>>
    /\ UNCHANGED pvars
    /\ UNCHANGED tvars

\* socket.on('message', ...) of the session
onMessage(packMessage) ==
    /\ IF packMessage.cid = mac
       THEN handleResponse(packMessage)
       ELSE Dropped("none")
    /\ ev' = Classify(packMessage)
    /\ pre' = IF ev'.op = "pack" THEN Snapshot ELSE NoPre
    /\ datSeen' = (datSeen \/ (ev'.op = "pack" /\ ev'.t = "dat" /\ ev'.r = OK))
    /\ acked' = Ack(packMessage)
    /\ transport' = NoTransport
    /\ UNCHANGED <<now, sent, lastObserved>>
    /\ UNCHANGED pvars
    /\ UNCHANGED tvars

----------------------------------------------------------------------------
(* Requests and the refresh timer *)

\* variant: the 3rd unanswered request makes the device unavailable
status_third(throws) ==
    /\ unrespondedStatusRequests < MaxUnresponded
    /\ unavailable' = IF unrespondedStatusRequests = 2 THEN TRUE ELSE unavailable
    /\ unrespondedStatusRequests' = unrespondedStatusRequests + 1
    /\ sent' = sendRequest(StatusPack, key)
    /\ out' = Output(FALSE, sendOutcome(throws).raised, 1)
    /\ transport' = Transport(throws, sendOutcome(throws).logged)

\* variant: only the 5th unanswered request finds the device unavailable
status_onlyAtFifth(throws) ==
    /\ unrespondedStatusRequests < MaxUnresponded
    /\ unavailable' = (unrespondedStatusRequests = LastTolerated)
    /\ unrespondedStatusRequests' = unrespondedStatusRequests + 1
    /\ sent' = sendRequest(StatusPack, key)
    /\ out' = Output(FALSE, sendOutcome(throws).raised, 1)
    /\ transport' = Transport(throws, sendOutcome(throws).logged)

\* status(): the 5th unanswered request makes the device unavailable;
\* throws tells whether socket.send throws
status(throws) ==
    /\ unrespondedStatusRequests < MaxUnresponded
    /\ unavailable' = IF unrespondedStatusRequests = LastTolerated THEN TRUE ELSE unavailable
    /\ unrespondedStatusRequests' = unrespondedStatusRequests + 1
    /\ sent' = sendRequest(StatusPack, key)
    /\ out' = Output(FALSE, sendOutcome(throws).raised, 1)
    /\ transport' = Transport(throws, sendOutcome(throws).logged)

\* variant: the comparison is the wrong way round
Polling_reversed == lastGetDeviceStatus + Window < now

\* this.lastGetDeviceStatus + 5000 > Date.now()
Polling == lastGetDeviceStatus + Window > now

\* variant: the 'refresh' event is emitted from construction on
onRefresh_untimed(throws) ==
    /\ IF Polling
       THEN status(throws)
       ELSE /\ UNCHANGED <<unavailable, unrespondedStatusRequests, sent>>
            /\ out' = NoOutput
            /\ transport' = NoTransport
    /\ ev' = Event("refresh", "-", 0)
    /\ pre' = NoPre
    /\ acked' = NoAck
    /\ handled' = NoPack
    /\ refreshed' = <<>>
    /\ UNCHANGED pvars
    /\ UNCHANGED tvars
    /\ UNCHANGED <<key, deviceStatus, lastGetDeviceStatus, timers, now, datSeen,
                   lastObserved>>

\* variant: a session that is still unbound sends its bind request again
onRefresh_rebinds(throws) ==
    /\ IF key = undefined
       THEN /\ sent' = sendRequest(BindPack, key)
            /\ out' = Output(FALSE, sendOutcome(throws).raised, 1)
            /\ transport' = Transport(throws, sendOutcome(throws).logged)
            /\ UNCHANGED <<unavailable, unrespondedStatusRequests>>
       ELSE /\ timers > 0
            /\ IF Polling
               THEN status(throws)
               ELSE /\ UNCHANGED <<unavailable, unrespondedStatusRequests, sent>>
                    /\ out' = NoOutput
                    /\ transport' = NoTransport
    /\ ev' = Event("refresh", "-", 0)
    /\ pre' = NoPre
    /\ acked' = NoAck
    /\ handled' = NoPack
    /\ refreshed' = <<>>
    /\ UNCHANGED pvars
    /\ UNCHANGED tvars
    /\ UNCHANGED <<key, deviceStatus, lastGetDeviceStatus, timers, now, datSeen,
                   lastObserved>>

\* refreshEventEmitter.on('refresh', ...), emitted by a timer
onRefresh(throws) ==
    /\ timers > 0
    /\ IF Polling
       THEN status(throws)
       ELSE /\ UNCHANGED <<unavailable, unrespondedStatusRequests, sent>>
            /\ out' = NoOutput
            /\ transport' = NoTransport
    /\ ev' = Event("refresh", "-", 0)
    /\ pre' = NoPre
    /\ acked' = NoAck
    /\ handled' = NoPack
    /\ refreshed' = <<>>
    /\ UNCHANGED pvars
    /\ UNCHANGED tvars
    /\ UNCHANGED <<key, deviceStatus, lastGetDeviceStatus, timers, now, datSeen,
                   lastObserved>>

\* getDeviceStatus(), called by the consumer
getDeviceStatus ==
    /\ lastGetDeviceStatus' = now
    /\ lastObserved' = now
    /\ ev' = Event("getDeviceStatus", "-", 0)
    /\ out' = NoOutput
    /\ transport' = NoTransport
    /\ pre' = NoPre
    /\ acked' = NoAck
    /\ handled' = NoPack
    /\ refreshed' = <<>>
    /\ UNCHANGED pvars
    /\ UNCHANGED tvars
    /\ UNCHANGED <<key, unavailable, unrespondedStatusRequests, deviceStatus,
                   timers, now, sent, datSeen>>

\* cmd(commands): commands is given by its keys and their values in order;
\* throws tells whether socket.send throws
cmd(opt, p, throws) ==
    /\ sent' = sendRequest(CmdPack(opt, p), key)
    /\ ev' = Event("cmd", "-", 0)
    /\ out' = Output(FALSE, sendOutcome(throws).raised, 1)
    /\ transport' = Transport(throws, sendOutcome(throws).logged)
    /\ pre' = NoPre
    /\ acked' = NoAck
    /\ handled' = NoPack
    /\ refreshed' = <<>>
    /\ UNCHANGED pvars
    /\ UNCHANGED tvars
    /\ UNCHANGED <<key, unavailable, unrespondedStatusRequests, deviceStatus,
                   lastGetDeviceStatus, timers, now, datSeen, lastObserved>>

\* time passes
Advance ==
    /\ now + Step <= MaxTicks * Step
    /\ now' = now + Step
    /\ ev' = Event("advance", "-", 0)
    /\ out' = NoOutput
    /\ transport' = NoTransport
    /\ pre' = NoPre
    /\ acked' = NoAck
    /\ handled' = NoPack
    /\ refreshed' = <<>>
    /\ UNCHANGED pvars
    /\ UNCHANGED tvars
    /\ UNCHANGED <<key, unavailable, unrespondedStatusRequests, deviceStatus,
                   lastGetDeviceStatus, timers, sent, datSeen, lastObserved>>

----------------------------------------------------------------------------
(* The Fahrenheit conversions of the README.  1.8 is 9/5: the quotients are
   computed on integers, C being 5 (F - 32) / 9 and F1 being 9 TemSet / 5 + 32 *)

\* the table of "Sending the target temperature in Fahrenheit":
\* Fahrenheit |-> <<TemSet, TemRec>>
SendingTable ==
    [F \in 61..86 |->
        CASE F = 61 -> <<16, 1>> [] F = 62 -> <<17, 0>> [] F = 63 -> <<17, 1>>
          [] F = 64 -> <<18, 0>> [] F = 65 -> <<18, 1>> [] F = 66 -> <<19, 0>>
          [] F = 67 -> <<19, 1>> [] F = 68 -> <<20, 1>> [] F = 69 -> <<21, 0>>
          [] F = 70 -> <<21, 1>> [] F = 71 -> <<22, 0>> [] F = 72 -> <<22, 1>>
          [] F = 73 -> <<23, 0>> [] F = 74 -> <<23, 1>> [] F = 75 -> <<24, 0>>
          [] F = 76 -> <<24, 1>> [] F = 77 -> <<25, 1>> [] F = 78 -> <<26, 0>>
          [] F = 79 -> <<26, 1>> [] F = 80 -> <<27, 0>> [] F = 81 -> <<27, 1>>
          [] F = 82 -> <<28, 0>> [] F = 83 -> <<28, 1>> [] F = 84 -> <<29, 0>>
          [] F = 85 -> <<29, 1>> [] F = 86 -> <<30, 1>>]

\* TemSet = round(C), C = (F - 32.0) / 1.8: the nearest integer, halves up
TemSet(F) == (10 * (F - 32) + 9) \div 18

\* variant: C - TemSet <= 0 gives 0
TemRec_zeroIsBelow(F) == IF 5 * (F - 32) <= 9 * TemSet(F) THEN 0 ELSE 1

\* TemRec = (C - TemSet) < 0 ? 0 : 1
TemRec(F) == IF 5 * (F - 32) < 9 * TemSet(F) THEN 0 ELSE 1

\* variant: F2 = floor(F1) + TemRec whether or not F1 is integral
Fahrenheit_alwaysAdds(temSet, temRec) == ((9 * temSet) \div 5) + 32 + temRec

\* F1 = TemSet * 1.8 + 32; F2 = (F1 % 1 == 0) ? F1 : (floor(F1) + TemRec)
Fahrenheit(temSet, temRec) ==
    IF (9 * temSet) % 5 = 0
    THEN ((9 * temSet) \div 5) + 32
    ELSE ((9 * temSet) \div 5) + 32 + temRec

Target(stage, F, temSet, temRec, read) ==
    [stage |-> stage, F |-> F, TemSet |-> temSet, TemRec |-> temRec, read |-> read]

NoTarget == Target("none", 0, 0, 0, 0)

\* a target temperature in Fahrenheit is sent: TemSet and TemRec are computed
Send ==
    /\ temperature.stage = "chosen"
    /\ temperature' = Target("sent", temperature.F, TemSet(temperature.F),
                             TemRec(temperature.F), 0)
    /\ UNCHANGED <<svars, pvars>>

\* the target temperature is read back from TemSet and TemRec
Read ==
    /\ temperature.stage = "sent"
    /\ temperature' = [temperature EXCEPT
                          !.stage = "read",
                          !.read = Fahrenheit(temperature.TemSet, temperature.TemRec)]
    /\ UNCHANGED <<svars, pvars>>

\* another target temperature is chosen
Choose ==
    /\ temperature.stage = "read"
    /\ \E F \in MinFahrenheit..MaxFahrenheit : temperature' = Target("chosen", F, 0, 0, 0)
    /\ UNCHANGED <<svars, pvars>>

----------------------------------------------------------------------------
(* The platform: discovery and the registry of accessories *)

Macs == {mac, otherMac}
Addresses == {"192.168.1.10", "192.168.1.11"}
null == "null"

\* api.hap.uuid.generate(mac); an accessory is modelled by its UUID
generate(m) == IF m = mac THEN "uuid-m1" ELSE "uuid-m2"

\* record[k] of a JavaScript object, undefined when the property is missing
Lookup(record, k) == IF k \in DOMAIN record THEN record[k] ELSE undefined

\* record[k] = v
Store(record, k, v) ==
    [x \in (DOMAIN record) \cup {k} |-> IF x = k THEN v ELSE record[x]]

EmptyRecord == [x \in {} |-> undefined]

\* the decrypted pack of a discovery response, and other packs in its place
DevPack(t, m) ==
    [t |-> t, mac |-> m, brand |-> "gree", model |-> "gree-ac", name |-> "ac",
     ver |-> "V1.1.13"]

\* the pack message of a datagram, with the address it came from; a buffer
\* that is not JSON has malformed set
PackMessage(i, tcid, pack, address) ==
    [malformed |-> FALSE, i |-> i, tcid |-> tcid, pack |-> pack, address |-> address]

Garbage ==
    [PackMessage(0, app, encrypt(DevPack("none", mac), undefined), "192.168.1.10")
        EXCEPT !.malformed = TRUE]

\* the datagrams the platform's listener can be handed
Datagrams ==
    {Garbage}
    \cup {PackMessage(i, tcid, encrypt(DevPack(t, m), k), a) :
            i \in {0, 1}, tcid \in {"", app}, t \in {"dev", "dat"}, m \in Macs,
            k \in {genericKey, "k1"}, a \in Addresses}

\* the device context handleDevResponse builds
DeviceContext(devPack, address) ==
    [mac |-> devPack.mac, address |-> address, brand |-> devPack.brand,
     model |-> devPack.model, name |-> devPack.name, version |-> devPack.ver]

NoContext ==
    [mac |-> undefined, address |-> undefined, brand |-> undefined,
     model |-> undefined, name |-> undefined, version |-> undefined]

Discovery(op, datagram) == [op |-> op, datagram |-> datagram]
Handled(emitted, raised) == [emitted |-> emitted, raised |-> raised]
NotHandled == Handled(NoContext, "none")

\* x === null
strictEqualsNull(x) == x = null

\* variant: every identity gets a new accessory object and session
registerDevice_always(deviceContext) ==
    LET m == deviceContext.mac
    IN  /\ devices' = Store(devices, m, generate(m))
        /\ greeAcDevices' = Store(greeAcDevices, generate(m), m)
        /\ sessions' = [sessions EXCEPT ![m] = @ + 1]

\* registerDevice(deviceContext): constructing the accessory object
\* constructs its device session, which sends the bind request
registerDevice(deviceContext) ==
    LET m == deviceContext.mac
        found == Lookup(devices, m)
        isNew == strictEqualsNull(found)
        accessory == IF isNew THEN generate(m) ELSE found
    IN  /\ devices' = IF isNew THEN Store(devices, m, accessory) ELSE devices
        /\ IF accessory # undefined /\ strictEqualsNull(Lookup(greeAcDevices, accessory))
           THEN /\ greeAcDevices' = Store(greeAcDevices, accessory, m)
                /\ sessions' = [sessions EXCEPT ![m] = @ + 1]
           ELSE UNCHANGED <<greeAcDevices, sessions>>

\* a discovery handler that returns, or throws, before the callback
NotEmitted(raised) ==
    /\ UNCHANGED <<devices, greeAcDevices, sessions, announced>>
    /\ dout' = Handled(NoContext, raised)

\* variant: the envelope's tcid is not looked at
handleDevResponse_anyTcid(datagram) ==
    IF datagram.malformed
    THEN NotEmitted("SyntaxError")
    ELSE IF datagram.i = 1
         THEN IF decryptThrows(datagram.pack, undefined)
              THEN NotEmitted("DecodeError")
              ELSE LET devPack == decrypt(datagram.pack, undefined)
                       deviceContext == DeviceContext(devPack, datagram.address)
                   IN  IF devPack.t = "dev"
                       THEN /\ registerDevice(deviceContext)
                            /\ announced' =
                                   [announced EXCEPT ![deviceContext.mac] =
                                       IF @ < MaxSessions THEN @ + 1 ELSE @]
                            /\ dout' = Handled(deviceContext, "none")
                       ELSE NotEmitted("none")
         ELSE NotEmitted("none")

\* GreeAirConditionerDevice.handleDevResponse with registerDevice as callback
handleDevResponse(datagram) ==
    IF datagram.malformed
    THEN NotEmitted("SyntaxError")
    ELSE IF datagram.i = 1 /\ datagram.tcid = ""
         THEN IF decryptThrows(datagram.pack, undefined)
              THEN NotEmitted("DecodeError")
              ELSE LET devPack == decrypt(datagram.pack, undefined)
                       deviceContext == DeviceContext(devPack, datagram.address)
                   IN  IF devPack.t = "dev"
                       THEN /\ registerDevice(deviceContext)
                            /\ announced' =
                                   [announced EXCEPT ![deviceContext.mac] =
                                       IF @ < MaxSessions THEN @ + 1 ELSE @]
                            /\ dout' = Handled(deviceContext, "none")
                       ELSE NotEmitted("none")
         ELSE NotEmitted("none")

\* socket.on('message', ...) of the platform
onDiscoveryMessage(datagram) ==
    /\ launched
    /\ \A m \in Macs : sessions[m] < MaxSessions
    /\ handleDevResponse(datagram)
    /\ disc' = Discovery("message", datagram)
    /\ UNCHANGED <<launched, scanMaxRetries, scanTimer, scanCount, scans>>
    /\ UNCHANGED svars
    /\ UNCHANGED tvars

\* configureAccessory(accessory): homebridge restores a cached accessory
\* before the platform has finished launching
configureAccessory(m) ==
    /\ ~launched
    /\ devices' = Store(devices, m, generate(m))
    /\ disc' = Discovery("configureAccessory", Garbage)
    /\ dout' = NotHandled
    /\ UNCHANGED <<launched, scanMaxRetries, scanTimer, scanCount, greeAcDevices,
                   scans, sessions, announced>>
    /\ UNCHANGED svars
    /\ UNCHANGED tvars

\* api.on('didFinishLaunching', ...): the listeners are registered and
\* scanForDevices binds the socket and starts the scan timer
didFinishLaunching ==
    /\ ~launched
    /\ launched' = TRUE
    /\ scanTimer' = "running"
    /\ disc' = Discovery("didFinishLaunching", Garbage)
    /\ dout' = NotHandled
    /\ UNCHANGED <<scanMaxRetries, scanCount, devices, greeAcDevices, scans,
                   sessions, announced>>
    /\ UNCHANGED svars
    /\ UNCHANGED tvars

\* variant: the scan is over when the count reaches the retries
scanIsOver_atRetries(count, retries) == count >= retries

\* this.scanCount > this.config.scanMaxRetries, after the increment
scanIsOver(count, retries) == count > retries

\* the scan timer's callback: scan(), then count and perhaps stop
onScanTimer ==
    /\ scanTimer = "running"
    /\ scans' = scans + 1
    /\ scanCount' = scanCount + 1
    /\ scanTimer' = IF scanIsOver(scanCount + 1, scanMaxRetries)
                    THEN "cleared" ELSE scanTimer
    /\ disc' = Discovery("scan", Garbage)
    /\ dout' = NotHandled
    /\ UNCHANGED <<launched, scanMaxRetries, devices, greeAcDevices, sessions,
                   announced>>
    /\ UNCHANGED svars
    /\ UNCHANGED tvars

\* the platform after its constructor, configured with n scan retries
PlatformConstructed(n) ==
    /\ launched = FALSE
    /\ scanMaxRetries = n
    /\ scanTimer = undefined
    /\ scanCount = 0
    /\ devices = EmptyRecord
    /\ greeAcDevices = EmptyRecord
    /\ scans = 0
    /\ sessions = [m \in Macs |-> 0]
    /\ announced = [m \in Macs |-> 0]
    /\ disc = Discovery("constructor", Garbage)
    /\ dout = NotHandled

----------------------------------------------------------------------------
(* The session's life: construction, then any handler *)

\* the session after its constructor: field initialisers, then bind();
\* throws tells whether socket.send threw
SessionConstructed(throws) ==
    /\ key = undefined
    /\ unavailable = TRUE
    /\ unrespondedStatusRequests = 0
    /\ deviceStatus = EmptyStatus
    /\ now = 0
    /\ lastGetDeviceStatus = now
    /\ timers = 0
    /\ sent = sendRequest(BindPack, undefined)
    /\ ev = Event("constructor", "-", 0)
    /\ out = Output(FALSE, sendOutcome(throws).raised, 1)
    /\ transport = Transport(throws, sendOutcome(throws).logged)
    /\ pre = NoPre
    /\ datSeen = FALSE
    /\ lastObserved = now
    /\ acked = NoAck
    /\ handled = NoPack
    /\ refreshed = <<>>

\* a session, beside a platform with the default configuration
Init ==
    /\ \E throws \in BOOLEAN : SessionConstructed(throws)
    /\ PlatformConstructed(scanMaxRetriesDefault)
    /\ temperature = NoTarget

SessionFields == {"Pow"}
SessionValues == {1}
SessionMessages ==
    PackMessages({mac}, EncKeys,
                 ResponsePacks({OK, Rejected}, DeviceKeys, SessionValues, OneCol(SessionFields)))
    \cup PackMessages({otherMac}, EncKeys,
                      ResponsePacks({OK}, DeviceKeys, SessionValues, OneCol(SessionFields)))

Receive == \E m \in SessionMessages : onMessage(m) /\ handled' = NoPack
Command ==
    \E f \in SessionFields : \E v \in SessionValues : \E throws \in BOOLEAN :
        cmd(<<f>>, <<v>>, throws)
Tick == \E throws \in BOOLEAN : onRefresh(throws)

Next ==
    \/ Receive
    \/ Tick
    \/ getDeviceStatus
    \/ Command
    \/ Advance

Spec == Init /\ [][Next]_vars

----------------------------------------------------------------------------
(* The status cache: the same session, fed longer packs and commands *)

CacheFields == {"Pow", "Mod"}
CacheValues == {0, 1}
CacheMessages ==
    PackMessages({mac}, {genericKey, "k1"},
                 ResponsePacks({OK}, {"k1"}, CacheValues, SeqsUpTo(CacheFields, MaxCols))
                 \cup ShortDatPacks({OK}, CacheValues, SeqsUpTo(CacheFields, MaxCols)))

\* the key lists of command objects: an object has each key once
CommandKeys == {opt \in SeqsUpTo(CacheFields, MaxCols) :
                   \A i, j \in DOMAIN opt : opt[i] = opt[j] => i = j}

CacheReceive == \E m \in CacheMessages : onMessage(m) /\ handled' = NoPack
CacheCommand == \E opt \in CommandKeys : \E p \in [DOMAIN opt -> CacheValues] : cmd(opt, p, FALSE)

CacheNext ==
    \/ CacheReceive
    \/ CacheCommand

SpecCache == Init /\ [][CacheNext]_vars

----------------------------------------------------------------------------
(* The platform's life: it is constructed with some configuration, restores
   cached accessories, launches, scans and listens *)

PlatformInit ==
    /\ SessionConstructed(FALSE)
    /\ \E n \in 1..MaxRetries : PlatformConstructed(n)
    /\ temperature = NoTarget

Restore == \E m \in Macs : configureAccessory(m)
Discover == \E d \in Datagrams : onDiscoveryMessage(d)

PlatformNext ==
    \/ Restore
    \/ didFinishLaunching
    \/ onScanTimer
    \/ Discover

SpecPlatform == PlatformInit /\ [][PlatformNext]_vars

----------------------------------------------------------------------------
(* Properties of the session *)

\* C1: a session is unavailable from construction until a dat response with
\* r = 200 addressed to it has been handled; binding, a res response and the
\* sending of requests do not make it available.
C1_UnavailableUntilDat == ~datSeen => isUnavailable

\* C1 witness: a bound session that has sent status requests and has just
\* handled a successful res response, with no dat handled yet.
C1_Witness ==
    /\ ~datSeen
    /\ key # undefined
    /\ unrespondedStatusRequests > 0
    /\ ev = Event("pack", "res", OK)
    /\ isUnavailable

C3_DatResets ==
    ev = Event("pack", "dat", OK) => unrespondedStatusRequests = 0 /\ ~isUnavailable

\* C3 witness: the dat response found an unavailable session with more than
\* 5 requests unanswered.
C3_Witness ==
    /\ ev = Event("pack", "dat", OK)
    /\ pre.unavailable
    /\ pre.unrespondedStatusRequests > LastTolerated + 1
    /\ unrespondedStatusRequests = 0
    /\ ~isUnavailable

\* C4: handling a response whose pack has r # 200 changes neither the status,
\* the availability, the counter nor the key, and notifies nobody.
C4_RejectedChangesNothing ==
    [][(ev'.op = "pack" /\ ev'.r # OK)
        => /\ UNCHANGED <<deviceStatus, unavailable, unrespondedStatusRequests, key>>
           /\ ~out'.notified]_vars

\* C4 witness: a rejected dat response reached a bound, unavailable session
\* with requests unanswered, and left it so.
C4_Witness ==
    /\ ev = Event("pack", "dat", Rejected)
    /\ key # undefined
    /\ isUnavailable
    /\ unrespondedStatusRequests > 0

\* C5: once set, the key never changes.
C5_KeyNeverChanges == [][key # undefined => key' = key]_vars

\* C6: only a status request and a successful dat response change the
\* availability or the counter; cmd() and res responses leave both alone.
C6_OnlyStatusAndDat ==
    [][(unavailable' # unavailable \/ unrespondedStatusRequests' # unrespondedStatusRequests)
        => \/ (ev'.op = "refresh" /\ out'.sends = 1)
           \/ ev' = Event("pack", "dat", OK)]_vars

\* C6 witness: a successful res response was handled by an available session
\* with 3 requests unanswered, and both are as before.
C6_Witness ==
    /\ ev = Event("pack", "res", OK)
    /\ pre = [unavailable |-> FALSE, unrespondedStatusRequests |-> 3]
    /\ Snapshot = pre

\* C7: a refresh tick less than 5000 ms after the last getDeviceStatus()
\* sends a status request; one more than 5000 ms after it sends nothing and
\* leaves the counter alone.
C7_TickWithinWindow ==
    [][ev'.op = "refresh"
        => /\ now - lastGetDeviceStatus < Window
                => /\ out'.sends = 1
                   /\ sent'.pack.plain.t = "status"
                   /\ unrespondedStatusRequests' = unrespondedStatusRequests + 1
           /\ now - lastGetDeviceStatus > Window
                => /\ out'.sends = 0
                   /\ sent' = sent
                   /\ unrespondedStatusRequests' = unrespondedStatusRequests]_vars

\* C7 witness: a tick more than 5000 ms after the last call sent nothing.
C7_Witness ==
    /\ ev.op = "refresh"
    /\ now - lastGetDeviceStatus > Window
    /\ out.sends = 0
    /\ key # undefined

C10_WrongKeyChangesNothing ==
    [][ev'.op = "wrongKey"
        => /\ out'.raised = "DecodeError"
           /\ UNCHANGED <<key, deviceStatus, unavailable, unrespondedStatusRequests,
                          lastGetDeviceStatus>>]_vars

\* C10 witness: a bound, available session with a cached status has just
\* dropped a response it could not decrypt.
C10_Witness ==
    /\ ev.op = "wrongKey"
    /\ out.raised = "DecodeError"
    /\ key # undefined
    /\ ~isUnavailable
    /\ deviceStatus # EmptyStatus

Range(seq) == {seq[i] : i \in DOMAIN seq}

\* C9: when a res response with r = 200 answers the last cmd, listing the
\* same codes with as many values, the cache holds val[i] under opt[i] for
\* every i and every other code keeps the value it had.
C9_ResUpdatesCache ==
    [][acked'.is
        => /\ \A i \in DOMAIN acked'.opt :
                  Get(deviceStatus', acked'.opt[i]) = acked'.val[i]
           /\ \A code \in Range(GreeAirConditionerCommands) \ Range(acked'.opt) :
                  Get(deviceStatus', code) = Get(deviceStatus, code)]_vars

\* C9 witness: cmd({Pow: 1, Mod: 0}) was answered by a res response with
\* val [1, 0]; the cache holds both values.
C9_Witness ==
    /\ acked = [opt |-> <<"Pow", "Mod">>, val |-> <<1, 0>>, is |-> TRUE]
    /\ sent.pack.plain = CmdPack(<<"Pow", "Mod">>, <<1, 0>>)
    /\ Get(deviceStatus, "Pow") = 1
    /\ Get(deviceStatus, "Mod") = 0

----------------------------------------------------------------------------
(* Properties of the platform *)

\* a datagram is a valid discovery response: i = 1, empty tcid, and a pack
\* made with the generic key whose t is "dev"
ValidDiscovery(d) ==
    /\ ~d.malformed
    /\ d.i = 1
    /\ d.tcid = ""
    /\ d.pack.enc = genericKey
    /\ d.pack.plain.t = "dev"

\* a datagram the discovery handler can decode: it is JSON, and its pack,
\* where the handler decrypts it, was made with the generic key
Decodable(d) ==
    /\ ~d.malformed
    /\ (d.i = 1 /\ d.tcid = "") => d.pack.enc = genericKey

\* C11: a malformed or undecryptable datagram is dropped: neither the
\* discovery listener nor a session's listener lets an error escape.
C11_MalformedIsDropped ==
    /\ disc.op = "message" => dout.raised = "none"
    /\ ev.op = "wrongKey" => out.raised = "none"

C13_DiscoveryConstructsSession ==
    [][(/\ disc'.op = "message"
        /\ ValidDiscovery(disc'.datagram)
        /\ sessions[disc'.datagram.pack.plain.mac] = 0)
        => sessions'[disc'.datagram.pack.plain.mac] = 1]_vars

\* C14 as stated: at most scanMaxRetries scan messages are broadcast.
C14_AtMostRetries == scans <= scanMaxRetries

\* C14: at most scanMaxRetries + 1 scan messages are broadcast, the first and
\* the retries; the timer is cleared exactly when that many were sent, and
\* once cleared it stays cleared and nothing more is broadcast.
C14_AtMostRetriesPlusOne ==
    /\ [](/\ scans <= scanMaxRetries + 1
          /\ scanTimer = "cleared" <=> scans = scanMaxRetries + 1)
    /\ [][scanTimer = "cleared" => (scanTimer' = "cleared" /\ scans' = scans)]_vars

\* C14 witness: the timer was cleared after retries + 1 broadcasts, with a
\* device having answered, and a datagram still arrived afterwards.
C14_Witness ==
    /\ scanTimer = "cleared"
    /\ scans = scanMaxRetries + 1
    /\ announced[mac] > 0
    /\ disc.op = "message"

\* C15: of the datagrams it can decode, handleDevResponse hands an identity
\* to its callback exactly for the valid discovery responses; the identity
\* is the pack's mac, brand, model, name and ver with the datagram's source
\* address; any other datagram yields no identity and changes nothing.
C15_IdentityExactlyForDev ==
    [][(disc'.op = "message" /\ Decodable(disc'.datagram))
        => IF ValidDiscovery(disc'.datagram)
           THEN dout'.emitted =
                    [mac |-> disc'.datagram.pack.plain.mac,
                     address |-> disc'.datagram.address,
                     brand |-> disc'.datagram.pack.plain.brand,
                     model |-> disc'.datagram.pack.plain.model,
                     name |-> disc'.datagram.pack.plain.name,
                     version |-> disc'.datagram.pack.plain.ver]
           ELSE /\ dout'.emitted = NoContext
                /\ UNCHANGED <<devices, greeAcDevices, sessions, announced,
                               scanCount, scanTimer, scans>>]_vars

\* C15 witness: a discovery response of the other device, sent from the
\* second address, has just yielded its identity.
C15_Witness ==
    /\ disc.op = "message"
    /\ ValidDiscovery(disc.datagram)
    /\ dout.emitted.mac = otherMac
    /\ dout.emitted.address = "192.168.1.11"
    /\ dout.emitted.version = "V1.1.13"

----------------------------------------------------------------------------
(* More properties of the session *)

\* C16: every status and cmd request is sent with i = 0 and is not encrypted
\* with the generic key; only the bind request has i = 1 and the generic key.
C16_OnlyBindUsesGenericKey ==
    sent.pack.plain.t \in {"status", "cmd"}
        => sent.i = 0 /\ sent.pack.enc # genericKey

\* C17: an available session has its key set.
C17_AvailableImpliesBound == ~isUnavailable => key # undefined

\* C18: a datagram whose cid is not the session's hardware address, be it
\* that of another session's device or of a device without a session,
\* changes neither the key, the status, the availability nor the counter.
C18_OtherCidChangesNothing ==
    [][ev'.op = "otherCid"
        => UNCHANGED <<key, deviceStatus, unavailable, unrespondedStatusRequests>>]_vars

\* C18 witness: a bound, available session with a cached status and requests
\* unanswered has just been handed a datagram of the other address.
C18_Witness ==
    /\ ev.op = "otherCid"
    /\ key # undefined
    /\ ~isUnavailable
    /\ unrespondedStatusRequests > 0
    /\ deviceStatus # EmptyStatus
    /\ out = NoOutput

\* C19: a code that has a value in the cache has a value in every later
\* state: no step leaves it undefined.
C19_EntriesStayDefined ==
    [][\A code \in Range(GreeAirConditionerCommands) :
          Get(deviceStatus, code) # NoValue => Get(deviceStatus', code) # NoValue]_vars

\* C20: handling a dat or res response with r = 200 calls the refresh
\* callback exactly once, with all of the response's values in the cache;
\* no other step (a bindok or rejected response, a datagram that is dropped,
\* a request being sent) calls it.
C20_NotifiedOncePerUpdate ==
    [][IF ev'.op = "pack" /\ ev'.t \in {"dat", "res"} /\ ev'.r = OK
       THEN refreshed' = <<deviceStatus'>>
       ELSE refreshed' = <<>>]_vars

\* C20 witness: a res response wrote a value into an empty cache, and the
\* one call of the callback saw it.
C20_Witness ==
    /\ ev = Event("pack", "res", OK)
    /\ Len(refreshed) = 1
    /\ Get(refreshed[1], "Pow") = 1
    /\ refreshed[1] = deviceStatus
    /\ key # undefined

----------------------------------------------------------------------------
(* The conversions at work: a Fahrenheit target is chosen, sent and read *)

TemperatureInit ==
    /\ SessionConstructed(FALSE)
    /\ PlatformConstructed(scanMaxRetriesDefault)
    /\ \E F \in MinFahrenheit..MaxFahrenheit : temperature = Target("chosen", F, 0, 0, 0)

TemperatureNext ==
    \/ Send
    \/ Read
    \/ Choose

SpecTemperature == TemperatureInit /\ [][TemperatureNext]_vars

----------------------------------------------------------------------------
(* Properties of the conversions *)

\* C21: for every Fahrenheit target from 61 to 86 the computed TemSet and
\* TemRec are the pair the table of the README lists for it.
C21_EncodingMatchesTable ==
    (temperature.stage \in {"sent", "read"} /\ temperature.F \in DOMAIN SendingTable)
        => <<temperature.TemSet, temperature.TemRec>> = SendingTable[temperature.F]

\* C21 witness: 68 has been sent as (20, 1).
C21_Witness ==
    /\ temperature.stage = "sent"
    /\ temperature.F = 68
    /\ temperature.TemSet = 20
    /\ temperature.TemRec = 1

\* C22: for every Fahrenheit target of the table, reading back the pair that
\* was sent for it gives the target again.
C22_RoundTrip ==
    (temperature.stage = "read" /\ temperature.F \in DOMAIN SendingTable)
        => temperature.read = temperature.F

\* C22 witness: 63 was sent as (17, 1) and read back as 63.
C22_Witness ==
    /\ temperature.stage = "read"
    /\ temperature.F = 63
    /\ temperature.TemSet = 17
    /\ temperature.TemRec = 1
    /\ temperature.read = 63

----------------------------------------------------------------------------
(* Properties of sending *)

\* C24: a session that was available is unavailable once 3 status requests
\* have been sent without an answer.
C24_UnavailableAtThird ==
    (datSeen /\ unrespondedStatusRequests >= 3) => isUnavailable

\* C25: when socket.send throws while a bind, status or cmd request is sent, the
\* error is logged and not raised to the caller, key and cached status stay
\* as they are, and the request is handed to the socket once, with no timer
\* started for it.
C25_SendFailureIsLogged ==
    /\ [](transport.failed => (transport.logged /\ out.raised = "none" /\ out.sends = 1))
    /\ [][transport'.failed => UNCHANGED <<key, deviceStatus, timers>>]_vars

\* C25 witness: socket.send threw on a status request of a bound session
\* with a cached status; the tick returned normally.
C25_Witness ==
    /\ ev.op = "refresh"
    /\ transport = Transport(TRUE, TRUE)
    /\ out = Output(FALSE, "none", 1)
    /\ key # undefined
    /\ deviceStatus # EmptyStatus

----------------------------------------------------------------------------
(* The accessory's characteristic handlers.  HomeKit's booleans are written
   1 (true) and 0 (false). *)

Returned(value) == [raised |-> "none", value |-> value]
Thrown == [raised |-> "HapStatusError", value |-> NoValue]

\* Characteristic.Active
INACTIVE == 0
ACTIVE == 1
\* Characteristic.TargetHeaterCoolerState
AUTO == 0
HEAT == 1
COOL == 2
\* Characteristic.CurrentHeaterCoolerState
IDLE == 1
HEATING == 2
COOLING == 3
\* GreeAirConditionerCommands.mode.value
auto == 0
cool == 1
heat == 4
\* GreeAirConditionerCommands.swingUpDown.value: full and the swinging ones
isSwingingEnabledValues == {1, 7, 8, 9, 10, 11}

handleActiveGet(unav, st) ==
    IF unav THEN Thrown
    ELSE IF Get(st, "Pow") = 1 /\ Get(st, "Mod") \in {auto, cool, heat}
         THEN Returned(ACTIVE)
         ELSE Returned(INACTIVE)

handleTargetHeaterCoolerStateGet(unav, st) ==
    IF unav THEN Thrown
    ELSE CASE Get(st, "Mod") = auto -> Returned(AUTO)
           [] Get(st, "Mod") = cool -> Returned(COOL)
           [] Get(st, "Mod") = heat -> Returned(HEAT)
           [] OTHER -> Thrown

\* undefined - 40 is NaN, written NoValue
handleCurrentTemperatureGet(unav, st) ==
    IF unav THEN Thrown
    ELSE IF Get(st, "TemSen") = NoValue THEN Returned(NoValue)
         ELSE Returned(Get(st, "TemSen") - 40)

handleThresholdTemperatureGet(unav, st) ==
    IF unav THEN Thrown ELSE Returned(Get(st, "SetTem"))

\* undefined * 20 is NaN, written NoValue
handleRotationSpeedGet(unav, st) ==
    IF unav THEN Thrown
    ELSE IF Get(st, "WdSpd") = NoValue THEN Returned(NoValue)
         ELSE Returned(Get(st, "WdSpd") * 20)

handleTemperatureDisplayUnitsGet(unav, st) ==
    IF unav THEN Thrown
    ELSE IF Get(st, "TemUn") \in {0, 1} THEN Returned(Get(st, "TemUn")) ELSE Thrown

handleSwingModeGet(unav, st) ==
    IF unav THEN Thrown
    ELSE Returned(IF Get(st, "SwUpDn") \in isSwingingEnabledValues THEN 1 ELSE 0)

\* a comparison with NaN or undefined is false
handleCurrentHeaterCoolerStateGet(unav, st) ==
    IF unav THEN Thrown
    ELSE LET currentTemperature == handleCurrentTemperatureGet(unav, st).value
             targetTemperature == handleThresholdTemperatureGet(unav, st).value
             targetState == handleTargetHeaterCoolerStateGet(unav, st)
             numbers == currentTemperature # NoValue /\ targetTemperature # NoValue
         IN  IF targetState.raised # "none" THEN Thrown
             ELSE IF /\ numbers
                     /\ targetTemperature < currentTemperature
                     /\ targetState.value \in {AUTO, COOL}
                  THEN Returned(COOLING)
                  ELSE IF /\ numbers
                          /\ targetTemperature > currentTemperature
                          /\ targetState.value \in {AUTO, HEAT}
                       THEN Returned(HEATING)
                       ELSE Returned(IDLE)

\* handleXFanGet, handleHealthGet, handleLightGet, handleSleepGet,
\* handleQuietGet, handleTurboGet: the code's cached value as a boolean
handleSwitchGet(st, code) ==
    IF Get(st, code) = 1 THEN Returned(1)
    ELSE IF Get(st, code) = 0 THEN Returned(0)
         ELSE Thrown

\* the characteristics with a get handler, and the code of each switch
SwitchCode ==
    [c \in {"XFan", "Health", "Light", "Sleep", "Quiet", "Turbo"} |->
        CASE c = "XFan" -> "Blo" [] c = "Health" -> "Health" [] c = "Light" -> "Lig"
          [] c = "Sleep" -> "SwhSlp" [] c = "Quiet" -> "Quiet" [] c = "Turbo" -> "Tur"]

Switches == DOMAIN SwitchCode

Characteristics ==
    {"Active", "CurrentHeaterCoolerState", "TargetHeaterCoolerState",
     "CurrentTemperature", "ThresholdTemperature", "RotationSpeed",
     "TemperatureDisplayUnits", "SwingMode"} \cup Switches

\* the get handler bound to a characteristic
handleGet(c, unav, st) ==
    CASE c = "Active" -> handleActiveGet(unav, st)
      [] c = "CurrentHeaterCoolerState" -> handleCurrentHeaterCoolerStateGet(unav, st)
      [] c = "TargetHeaterCoolerState" -> handleTargetHeaterCoolerStateGet(unav, st)
      [] c = "CurrentTemperature" -> handleCurrentTemperatureGet(unav, st)
      [] c = "ThresholdTemperature" -> handleThresholdTemperatureGet(unav, st)
      [] c = "RotationSpeed" -> handleRotationSpeedGet(unav, st)
      [] c = "TemperatureDisplayUnits" -> handleTemperatureDisplayUnitsGet(unav, st)
      [] c = "SwingMode" -> handleSwingModeGet(unav, st)
      [] OTHER -> handleSwitchGet(st, SwitchCode[c])

\* whether a handler gets as far as device.getDeviceStatus(): the switch
\* handlers start with it, the others call it once the device is available
callsGetDeviceStatus(c, unav) == c \in Switches \/ ~unav

\* what a set handler does: it throws, returns, or calls device.cmd
NotSent(raised) == [raised |-> raised, sends |-> FALSE, opt |-> <<>>, p |-> <<>>]
Sends(opt, p) == [raised |-> "none", sends |-> TRUE, opt |-> opt, p |-> p]

handleActiveSet(unav, st, value) ==
    LET current == handleActiveGet(unav, st)
    IN  IF current.raised # "none" THEN NotSent(current.raised)
        ELSE IF value = current.value THEN NotSent("none")
             ELSE Sends(<<"Pow">>, <<IF value = ACTIVE THEN 1 ELSE 0>>)

\* handleXFanSet, handleHealthSet, handleLightSet, handleSleepSet
handleSwitchSet(st, code, value) ==
    LET current == handleSwitchGet(st, code)
    IN  IF current.raised # "none" THEN NotSent(current.raised)
        ELSE IF value = current.value THEN NotSent("none")
             ELSE Sends(<<code>>, <<value>>)

\* handleQuietSet: the value is compared with handleSleepGet()
handleQuietSet(st, value) ==
    LET sleep == handleSwitchGet(st, "SwhSlp")
        turbo == handleSwitchGet(st, "Tur")
    IN  IF sleep.raised # "none" THEN NotSent(sleep.raised)
        ELSE IF value = sleep.value THEN NotSent("none")
             ELSE IF turbo.raised # "none" THEN NotSent(turbo.raised)
                  ELSE IF turbo.value = 1
                       THEN Sends(<<"Quiet", "Tur">>, <<value, 0>>)
                       ELSE Sends(<<"Quiet">>, <<value>>)

\* handleTurboSet: the value is compared with handleSleepGet()
handleTurboSet(unav, st, value) ==
    LET sleep == handleSwitchGet(st, "SwhSlp")
        targetState == handleTargetHeaterCoolerStateGet(unav, st)
        quiet == handleSwitchGet(st, "Quiet")
    IN  IF sleep.raised # "none" THEN NotSent(sleep.raised)
        ELSE IF value = sleep.value THEN NotSent("none")
             ELSE IF targetState.raised # "none" THEN NotSent(targetState.raised)
                  ELSE IF targetState.value = HEAT THEN NotSent("none")
                       ELSE IF quiet.raised # "none" THEN NotSent(quiet.raised)
                            ELSE IF quiet.value = 1
                                 THEN Sends(<<"Tur", "Quiet">>, <<value, 0>>)
                                 ELSE Sends(<<"Tur">>, <<value>>)

\* Characteristic.SwingMode
SWING_DISABLED == 0
SWING_ENABLED == 1
\* GreeAirConditionerCommands.swingLeftRight.value and swingUpDown.value
default == 0
fixedHighest == 2
fixedLowest == 6
swingLowest == 7
swingHighest == 11

\* handleSwingModeSet: a predefined position for the target state
handleSwingModeSet(unav, st, value) ==
    LET current == handleSwingModeGet(unav, st)
        targetState == handleTargetHeaterCoolerStateGet(unav, st)
        swingUpDown ==
            IF value = SWING_DISABLED
            THEN CASE targetState.value = AUTO -> default
                   [] targetState.value = HEAT -> fixedLowest
                   [] targetState.value = COOL -> fixedHighest
                   [] OTHER -> default
            ELSE CASE targetState.value = AUTO -> default
                   [] targetState.value = HEAT -> swingLowest
                   [] targetState.value = COOL -> swingHighest
                   [] OTHER -> default
    IN  IF current.raised # "none" THEN NotSent(current.raised)
        ELSE IF value = current.value THEN NotSent("none")
             ELSE IF targetState.raised # "none" THEN NotSent(targetState.raised)
                  ELSE Sends(<<"SwingLfRig", "SwUpDn">>, <<default, swingUpDown>>)

\* the characteristics whose set handlers are modelled
Settable == {"Active", "Sleep", "Quiet", "Turbo"}

\* the set handler bound to a characteristic
handleSet(c, unav, st, value) ==
    CASE c = "Active" -> handleActiveSet(unav, st, value)
      [] c = "Quiet" -> handleQuietSet(st, value)
      [] c = "Turbo" -> handleTurboSet(unav, st, value)
      [] c = "SwingMode" -> handleSwingModeSet(unav, st, value)
      [] OTHER -> handleSwitchSet(st, SwitchCode[c], value)

\* HomeKit reads a characteristic
onGet(c) ==
    LET got == handleGet(c, unavailable, deviceStatus)
        reads == callsGetDeviceStatus(c, unavailable)
    IN  /\ lastGetDeviceStatus' = IF reads THEN now ELSE lastGetDeviceStatus
        /\ lastObserved' = IF reads THEN now ELSE lastObserved
        /\ ev' = Event("get", c, 0)
        /\ out' = Output(FALSE, got.raised, 0)
        /\ pre' = NoPre
        /\ acked' = NoAck
        /\ handled' = NoPack
        /\ refreshed' = <<>>
        /\ transport' = NoTransport
        /\ UNCHANGED <<key, unavailable, unrespondedStatusRequests, deviceStatus,
                       timers, now, sent, datSeen>>
        /\ UNCHANGED pvars
        /\ UNCHANGED tvars

\* HomeKit writes a characteristic; socket.send does not throw here
onSet(c, value) ==
    LET set == handleSet(c, unavailable, deviceStatus, value)
        reads == callsGetDeviceStatus(c, unavailable)
    IN  /\ lastGetDeviceStatus' = IF reads THEN now ELSE lastGetDeviceStatus
        /\ lastObserved' = IF reads THEN now ELSE lastObserved
        /\ sent' = IF set.sends THEN sendRequest(CmdPack(set.opt, set.p), key) ELSE sent
        /\ ev' = Event("set", c, value)
        /\ out' = Output(FALSE, set.raised, IF set.sends THEN 1 ELSE 0)
        /\ pre' = NoPre
        /\ acked' = NoAck
        /\ handled' = NoPack
        /\ refreshed' = <<>>
        /\ transport' = NoTransport
        /\ UNCHANGED <<key, unavailable, unrespondedStatusRequests, deviceStatus,
                       timers, now, datSeen>>
        /\ UNCHANGED pvars
        /\ UNCHANGED tvars

----------------------------------------------------------------------------
(* The accessory at work: responses fill the cache, HomeKit reads and writes *)

AccessoryPacks ==
    {DatPack(OK, <<code>>, <<v>>) : code \in {"Pow", "SwhSlp", "Quiet", "Tur"}, v \in {0, 1}}
    \cup {DatPack(OK, <<"Mod">>, <<v>>) : v \in {cool, heat}}
    \cup {ResPack(OK, <<code>>, TRUE, <<v>>, <<v>>) : code \in {"SwhSlp", "Quiet", "Tur"}, v \in {0, 1}}

AccessoryMessages == PackMessages({mac}, {genericKey}, AccessoryPacks)

AccessoryReceive == \E m \in AccessoryMessages : onMessage(m) /\ handled' = NoPack
HomeKitGet == \E c \in Characteristics : onGet(c)
HomeKitSet == \E c \in Settable : \E value \in {0, 1} : onSet(c, value)

AccessoryInit ==
    /\ SessionConstructed(FALSE)
    /\ PlatformConstructed(scanMaxRetriesDefault)
    /\ temperature = NoTarget

AccessoryNext ==
    \/ AccessoryReceive
    \/ HomeKitGet
    \/ HomeKitSet

SpecAccessory == AccessoryInit /\ [][AccessoryNext]_vars

----------------------------------------------------------------------------
(* Properties of the accessory *)

\* the last request sent is a cmd that lists code with value v
Requests(code, v) ==
    /\ sent.pack.plain.t = "cmd"
    /\ \E i \in DOMAIN sent.pack.plain.opt :
          sent.pack.plain.opt[i] = code /\ sent.pack.plain.p[i] = v

\* C23: every get handler called while the session is unavailable raises
\* the communication failure error.
C23_UnavailableGetRaises ==
    [][(ev'.op = "get" /\ isUnavailable) => out'.raised = "HapStatusError"]_vars

\* C26: a set handler sends nothing when the value to set is the value its
\* own get handler returns: the switches when it is the cached value of
\* their code, Active when it is what handleActiveGet returns.
C26_SetOfCurrentValueSendsNothing ==
    [][ev'.op = "set"
        => /\ (ev'.t \in Switches /\ Get(deviceStatus, SwitchCode[ev'.t]) = ev'.r)
                => out'.sends = 0
           /\ (ev'.t = "Active" /\ ~isUnavailable
                 /\ ev'.r = (IF Get(deviceStatus, "Pow") = 1
                                 /\ Get(deviceStatus, "Mod") \in {auto, cool, heat}
                             THEN ACTIVE ELSE INACTIVE))
                => out'.sends = 0]_vars

\* every switch the Quiet and Turbo handlers read has a cached value
QuietTurboCached ==
    \A code \in {"SwhSlp", "Quiet", "Tur"} : Get(deviceStatus, code) \in {0, 1}

\* C27: setting Quiet on while Turbo is cached on (and Quiet off) sends a
\* command with Quiet on and Turbo off; setting Turbo on while Quiet is cached
\* on (and Turbo off, mode cool) sends a command with Turbo on and Quiet off;
\* no command asks for Quiet on and Turbo on.
C27_QuietAndTurboExclude ==
    /\ [][/\ (/\ ev' = Event("set", "Quiet", 1)
              /\ QuietTurboCached
              /\ Get(deviceStatus, "Quiet") = 0
              /\ Get(deviceStatus, "Tur") = 1)
             => (out'.sends = 1 /\ Requests("Quiet", 1)' /\ Requests("Tur", 0)')
          /\ (/\ ev' = Event("set", "Turbo", 1)
              /\ QuietTurboCached
              /\ ~isUnavailable
              /\ Get(deviceStatus, "Mod") = cool
              /\ Get(deviceStatus, "Tur") = 0
              /\ Get(deviceStatus, "Quiet") = 1)
             => (out'.sends = 1 /\ Requests("Tur", 1)' /\ Requests("Quiet", 0)')]_vars
    /\ [](~(Requests("Quiet", 1) /\ Requests("Tur", 1)))

\* C28: no command with Turbo on is sent while the cached mode is heat; a
\* request to turn Turbo on in mode auto or cool, and a request to turn
\* Turbo off, is sent to the device.
C28_TurboNotInHeat ==
    [][/\ (ev'.op = "set" /\ out'.sends = 1 /\ Get(deviceStatus, "Mod") = heat)
          => ~Requests("Tur", 1)'
       /\ (/\ ev' = Event("set", "Turbo", 1)
           /\ QuietTurboCached
           /\ ~isUnavailable
           /\ Get(deviceStatus, "Mod") \in {auto, cool}
           /\ Get(deviceStatus, "Tur") = 0)
          => (out'.sends = 1 /\ Requests("Tur", 1)')
       /\ (/\ ev' = Event("set", "Turbo", 0)
           /\ QuietTurboCached
           /\ ~isUnavailable
           /\ Get(deviceStatus, "Mod") \in {auto, cool, heat}
           /\ Get(deviceStatus, "Tur") = 1)
          => (out'.sends = 1 /\ Requests("Tur", 0)')]_vars

----------------------------------------------------------------------------
(* Cache updates: the session is fed dat packs whose columns may repeat and
   res packs whose val may be shorter than opt, while time passes *)

UpdateFields == {"Pow", "Mod"}
UpdateValues == {0, 1}
UpdateCols == SeqsUpTo(UpdateFields, MaxCols)

\* a res pack carries p all zeros or all ones, with or without a val of any
\* length up to opt's
UpdatePacks ==
    UNION {{DatPack(OK, cols, dat) : dat \in [DOMAIN cols -> UpdateValues]} : cols \in UpdateCols}
    \cup UNION {{ResPack(OK, opt, TRUE, val, [i \in DOMAIN opt |-> v]) :
                     val \in SeqsUpTo(UpdateValues, Len(opt)), v \in UpdateValues}
                : opt \in UpdateCols}
    \cup UNION {{ResPack(OK, opt, FALSE, <<>>, [i \in DOMAIN opt |-> v]) : v \in UpdateValues}
                : opt \in UpdateCols}

UpdateMessages == PackMessages({mac}, {genericKey}, UpdatePacks)

UpdateReceive == \E m \in UpdateMessages : onMessage(m) /\ handled' = Dispatched(m)

UpdateNext ==
    \/ UpdateReceive
    \/ Advance

SpecUpdate == Init /\ [][UpdateNext]_vars

----------------------------------------------------------------------------
(* Properties of cache updates *)

\* the last index at which code occurs in codes
LastIndex(codes, code) ==
    CHOOSE i \in DOMAIN codes :
        codes[i] = code /\ \A j \in DOMAIN codes : codes[j] = code => j <= i

\* C29: after a res response with r = 200 is handled, every code of opt
\* holds the value of val at its (last) index when the pack carries val,
\* undefined past val's end whatever p holds there, and the value of p at
\* that index when the pack carries no val.
C29_ValOrPAsAWhole ==
    [][handled'.t = "res"
        => \A code \in Range(handled'.opt) :
              LET i == LastIndex(handled'.opt, code)
              IN  Get(deviceStatus', code) =
                      IF handled'.hasVal THEN At(handled'.val, i) ELSE At(handled'.p, i)]_vars

\* C29 witness: a res response with opt [Pow, Mod], val [1] and p [0, 0] was
\* handled: Pow is 1 and Mod was written undefined, not p's 0.
C29_Witness ==
    /\ handled = ResPack(OK, <<"Pow", "Mod">>, TRUE, <<1>>, <<0, 0>>)
    /\ deviceStatus = Put(Put(EmptyStatus, "Pow", 1), "Mod", NoValue)

----------------------------------------------------------------------------
(* Properties of binding and the refresh timer *)

C33_AvailableBelowFive ==
    /\ [](~isUnavailable => unrespondedStatusRequests <= LastTolerated)
    /\ [][(unrespondedStatusRequests' > unrespondedStatusRequests /\ unavailable)
            => unavailable']_vars

\* C33 witness: a session that was available has 6 requests unanswered and
\* is unavailable.
C33_Witness ==
    /\ datSeen
    /\ unrespondedStatusRequests = LastTolerated + 2
    /\ isUnavailable

\* C38: a session has at most one refresh timer.
C38_AtMostOneTimer == timers <= 1

----------------------------------------------------------------------------
(* A session with a device that answers and a consumer that keeps asking:
   no datagram is lost, the device answers the bind request with bindok and
   a status request with dat, and time does not pass beyond the window
   without the consumer calling getDeviceStatus() *)

\* what the device answers to the session's last request, while that
\* request is unanswered
Answers ==
    IF sent.pack.plain.t = "bind" /\ key = undefined
    THEN PackMessages({mac}, {genericKey}, {BindOkPack(OK, "k1")})
    ELSE IF sent.pack.plain.t = "status" /\ unrespondedStatusRequests > 0
         THEN PackMessages({mac}, {key}, {DatPack(OK, <<"Pow">>, <<1>>)})
         ELSE {}

Reply == \E m \in Answers : onMessage(m) /\ handled' = NoPack
LiveTick == onRefresh(FALSE)
LiveAdvance == Advance /\ now' < lastObserved + Window

LiveInit ==
    /\ SessionConstructed(FALSE)
    /\ PlatformConstructed(scanMaxRetriesDefault)
    /\ temperature = NoTarget

LiveNext ==
    \/ Reply
    \/ LiveTick
    \/ getDeviceStatus
    \/ LiveAdvance

\* the timer keeps firing and the device's answers arrive
SpecLive ==
    /\ LiveInit
    /\ [][LiveNext]_vars
    /\ WF_vars(LiveTick)
    /\ WF_vars(Reply)

\* C34: with such a device and such a consumer, a session that is
\* unavailable, newly constructed or after 5 requests went unanswered for a
\* while, eventually is available.
C34_EventuallyAvailable == isUnavailable ~> ~isUnavailable

\* C34 witness: a bound session that had 5 status requests unanswered and
\* was unavailable has handled the device's dat response and is available.
C34_Witness ==
    /\ ev = Event("pack", "dat", OK)
    /\ key = "k1"
    /\ pre.unavailable
    /\ pre.unrespondedStatusRequests >= LastTolerated + 1
    /\ ~isUnavailable

----------------------------------------------------------------------------
(* The accessory's refresh(): the characteristics it updates, in order, and
   the get handler whose value each one is given *)

refreshPlan ==
    <<<<"Active", "Active">>,
      <<"CurrentHeaterCoolerState", "CurrentHeaterCoolerState">>,
      <<"TargetHeaterCoolerState", "CurrentHeaterCoolerState">>,
      <<"CurrentTemperature", "CurrentTemperature">>,
      <<"ThresholdTemperature", "ThresholdTemperature">>,
      <<"RotationSpeed", "RotationSpeed">>,
      <<"TemperatureDisplayUnits", "TemperatureDisplayUnits">>,
      <<"SwingMode", "SwingMode">>,
      <<"XFan", "XFan">>,
      <<"Health", "Health">>,
      <<"Light", "Light">>,
      <<"Sleep", "Sleep">>,
      <<"Quiet", "Quiet">>,
      <<"Turbo", "Turbo">>>>

\* updateValue(handler()) for the entries from i on; a handler that throws
\* ends refresh() there
RECURSIVE updateValues(_, _, _, _)
updateValues(held, unav, st, i) ==
    IF i > Len(refreshPlan) THEN held
    ELSE LET got == handleGet(refreshPlan[i][2], unav, st)
         IN  IF got.raised # "none" THEN held
             ELSE updateValues(Put(held, refreshPlan[i][1], got.value), unav, st, i + 1)

\* the characteristics one call of refresh() updates, with their values
refreshUpdates(unav, st) == updateValues(EmptyStatus, unav, st, 1)

----------------------------------------------------------------------------
(* A session at home: discovery responses still arrive, the device reports
   its whole status and acknowledges swing commands, HomeKit reads the
   characteristics and sets the swing mode, time passes *)

dry == 2

\* a discovery response's pack, as the session's handler sees it: no r
DevResponsePack == [NoPack EXCEPT !.t = "dev"]

\* the values of a whole status, in the order of the command table: power
\* on, 25 degrees wanted and measured, everything else off
FullStatus(mode, swingUpDown) ==
    <<1, mode, 25, 0, 65, 0, 1, default, swingUpDown, 0, 0, 0, 0, 0, 0>>

HomePacks ==
    {BindOkPack(OK, "k1"), DevResponsePack}
    \cup {DatPack(OK, GreeAirConditionerCommands, FullStatus(mode, default)) :
              mode \in {auto, cool, heat, dry}}
    \cup {ResPack(OK, <<"SwingLfRig", "SwUpDn">>, TRUE, <<default, v>>, <<default, v>>) :
              v \in {default, fixedHighest, fixedLowest, swingLowest, swingHighest}}

DiscoveryResponses == PackMessages({mac}, {genericKey}, {DevResponsePack})

HomeMessages == PackMessages({mac}, {genericKey, "k1"}, HomePacks)

HomeReceive == \E m \in HomeMessages : onMessage(m) /\ handled' = NoPack
\* the characteristics HomeKit polls here
HomeCharacteristics ==
    {"Active", "CurrentTemperature", "ThresholdTemperature", "SwingMode", "Sleep"}

HomeGet == \E c \in HomeCharacteristics : onGet(c)
HomeSet == \E value \in {SWING_DISABLED, SWING_ENABLED} : onSet("SwingMode", value)

HomeInit ==
    /\ SessionConstructed(FALSE)
    /\ PlatformConstructed(scanMaxRetriesDefault)
    /\ temperature = NoTarget

HomeNext ==
    \/ HomeReceive
    \/ HomeGet
    \/ HomeSet
    \/ Advance

SpecHome == HomeInit /\ [][HomeNext]_vars

----------------------------------------------------------------------------
(* Properties of the session at home *)

\* C35: every get handler HomeKit invokes records the current time as
\* lastGetDeviceStatus, whether the session is available or not.
C35_EveryGetObserves ==
    [][ev'.op = "get" => lastGetDeviceStatus' = now]_vars

\* C36: when handleSwingModeSet(v) has sent its command and the next thing
\* the session handles is the res response echoing the command's values,
\* handleSwingModeGet returns v.
C36_SwingRoundTrip ==
    [][(/\ ev.op = "set"
        /\ ev.t = "SwingMode"
        /\ out.sends = 1
        /\ acked'.is
        /\ acked'.val = sent.pack.plain.p)
       => handleSwingModeGet(unavailable', deviceStatus') = Returned(ev.r)]_vars

\* C37: when the refresh callback has returned, every characteristic was
\* updated with the value of its own get handler; and with the mode dry
\* cached in an available session, the characteristics whose get handlers
\* do not read the mode were updated all the same.
C37_RefreshUpdatesEach ==
    refreshed # <<>>
        => LET held == refreshUpdates(unavailable, deviceStatus)
           IN  /\ out.raised = "none"
                    => \A c \in Characteristics :
                          /\ c \in DOMAIN held
                          /\ Returned(held[c]) = handleGet(c, unavailable, deviceStatus)
               /\ (~isUnavailable /\ Get(deviceStatus, "Mod") = dry)
                    => \A c \in {"Active", "CurrentTemperature", "ThresholdTemperature",
                                 "RotationSpeed", "SwingMode"} \cup Switches :
                          /\ c \in DOMAIN held
                          /\ Returned(held[c]) = handleGet(c, unavailable, deviceStatus)

\* C39: a discovery response delivered to the session's listener changes
\* none of the session's fields and raises no error, with or without a key.
C39_DiscoveryResponseIsDropped ==
    [][\A m \in DiscoveryResponses :
          onMessage(m)
             => /\ UNCHANGED <<key, unavailable, unrespondedStatusRequests, deviceStatus,
                              lastGetDeviceStatus, timers>>
                /\ out'.raised = "none"]_vars

====
